---- MODULE Spec2Model ----
(***************************************************************************)
(* Model of interactive-voronoi (src/src/main.rs): the event loop, the     *)
(* point store (dots, colors), the cursor position, the display mode and   *)
(* the draw commands of one render tick.                                   *)
(*                                                                         *)
(* Coordinates are f64 in the source.  Here a coordinate is an integer     *)
(* number of half-epsilons (1 unit = 0.0005), so that epsilon = 0.001 is   *)
(* Eps = 2 units: two coordinates one unit apart are nearer than epsilon   *)
(* without being equal, two units apart they are not.                      *)
(*                                                                         *)
(* The Delaunay2D library is an external collaborator: what it returns     *)
(* (the vertex pool and the regions) is a nondeterministic choice.         *)
(***************************************************************************)
EXTENDS Integers, Sequences, FiniteSets, TLC

\* ---------------------------------------------------------------- bounds
MaxCoord == 2
MaxDots == 2
MaxLoad == 2
MaxRandom == 1
MaxCells == 2
MaxVerts == 2

\* ------------------------------------------------------------- constants
\* let epsilon = 0.001, in units of 0.0005
Eps == 2

Points == (0..MaxCoord) \X (0..MaxCoord)
\* the values rand::random can give the three free channels of a color
ColorSet == {"c1", "c2"}

SeqsUpTo(S, n) == UNION {[1..k -> S] : k \in 0..n}

Abs(x) == IF x < 0 THEN -x ELSE x

VARIABLES
    dots,          \* Vec<[f64;2]>, the sites
    colors,        \* Vec<[f32;4]>, one color per site
    mp,            \* last cursor position
    lines_only,    \* display mode
    random_count,  \* settings.random_count
    status,        \* "running" or "panicked"
    ev,            \* the event the last loop iteration handled
    afterClear,    \* the store is as key N left it, and N emptied a non-empty store
    dtInvoked,     \* this iteration called the Delaunay2D library
    dtPoints,      \* the points this iteration added to the triangulation
    regions,       \* the regions export_voronoi_regions returned
    cmds,          \* the draw commands this iteration emitted, in order
    prevMode,      \* lines_only as it was before the last event
    lRun,          \* how many of the last events in a row were key L, up to 2
    printed,       \* the text this iteration printed
    pushed,        \* this iteration pushed a site
    cursor         \* the position the last pointer motion carried, else the origin

vars == <<dots, colors, mp, lines_only, random_count, status, ev, afterClear,
          dtInvoked, dtPoints, regions, cmds, prevMode, lRun, printed, pushed, cursor>>

\* ------------------------------------------------------- pure functions

no_dot_there_yet_Exact(dot, ds) ==
    \A i \in 1..Len(ds) : ~(dot = ds[i])

no_dot_there_yet_Or(dot, ds) ==
    \A i \in 1..Len(ds) :
        ~(Abs(dot[1] - ds[i][1]) < Eps \/ Abs(dot[2] - ds[i][2]) < Eps)

no_dot_there_yet(dot, ds) ==
    \A i \in 1..Len(ds) :
        ~(Abs(dot[1] - ds[i][1]) < Eps /\ Abs(dot[2] - ds[i][2]) < Eps)

random_point == Points

random_color == ColorSet

\* The colors recolor can leave behind: cleared, then one random color per dot.
recolor_NoClear(ds, cs) == {cs \o c : c \in [1..Len(ds) -> random_color]}

recolor(ds, cs) == [1..Len(ds) -> random_color]

\* The <<dots, colors>> random_voronoi can leave behind.
random_voronoi_KeepColors(ds, cs, num) ==
    {<<d, cs \o c>> : d \in [1..num -> random_point], c \in [1..num -> random_color]}

random_voronoi_Append(ds, cs, num) ==
    {<<ds \o d, cs \o c>> : d \in [1..num -> random_point], c \in [1..num -> random_color]}

random_voronoi(ds, cs, num) ==
    {<<d, c>> : d \in [1..num -> random_point], c \in [1..num -> random_color]}

\* ---------------------------------------------------------- json text
\* A text is a sequence of one-character strings.  A coordinate c stands for
\* the f64 c * 0.0005: 1.0 is 1000 epsilons.
UnitsPerOne == 1000 * Eps

Digits == <<"0", "1", "2", "3", "4", "5", "6", "7", "8", "9">>

IsDigit(ch) == \E d \in 1..10 : Digits[d] = ch

DigitVal(ch) == (CHOOSE d \in 1..10 : Digits[d] = ch) - 1

RECURSIVE Pow10(_)
Pow10(n) == IF n = 0 THEN 1 ELSE 10 * Pow10(n - 1)

RECURSIVE NatText(_)
NatText(n) ==
    IF n < 10 THEN <<Digits[n + 1]>> ELSE NatText(n \div 10) \o <<Digits[(n % 10) + 1]>>

RECURSIVE StripZeros(_)
StripZeros(t) ==
    IF Len(t) > 1 /\ t[Len(t)] = "0" THEN StripZeros(SubSeq(t, 1, Len(t) - 1)) ELSE t

\* the four decimals of a fraction given in ten-thousandths
FracText(f) ==
    StripZeros(<<Digits[(f \div 1000) + 1], Digits[((f \div 100) % 10) + 1],
                 Digits[((f \div 10) % 10) + 1], Digits[(f % 10) + 1]>>)

\* serde_json writes a finite f64 in its shortest decimal form, always with
\* a fraction: 0.0, 0.0005, 0.001, 1.0.
f64_to_string_NoFraction(c) == NatText(c \div UnitsPerOne)

f64_to_string(c) ==
    NatText(c \div UnitsPerOne) \o <<".">>
        \o FracText((c % UnitsPerOne) * (10000 \div UnitsPerOne))

pair_to_string(d) == <<"[">> \o f64_to_string(d[1]) \o <<",">> \o f64_to_string(d[2]) \o <<"]">>

RECURSIVE pairs_to_string(_, _)
pairs_to_string(ds, i) ==
    IF i > Len(ds) THEN <<>>
    ELSE (IF i > 1 THEN <<",">> ELSE <<>>) \o pair_to_string(ds[i]) \o pairs_to_string(ds, i + 1)

\* serde_json::to_string(dots): [[x,y],[x,y]]
to_string(ds) == <<"[">> \o pairs_to_string(ds, 1) \o <<"]">>

\* save_current_dots prints the text
save_current_dots(ds) == to_string(ds)

At(t, pos) == IF pos >= 1 /\ pos <= Len(t) THEN t[pos] ELSE "eof"

\* the digits from pos on: their value, their number, the position after them
RECURSIVE parse_digits(_, _, _, _)
parse_digits(t, pos, acc, cnt) ==
    IF IsDigit(At(t, pos))
    THEN parse_digits(t, pos + 1, 10 * acc + DigitVal(t[pos]), cnt + 1)
    ELSE [val |-> acc, cnt |-> cnt, pos |-> pos]

\* a number: digits, then an optional fraction
parse_f64(t, pos) ==
    LET ip == parse_digits(t, pos, 0, 0)
    IN  IF ip.cnt = 0 THEN [ok |-> FALSE, val |-> 0, pos |-> pos]
        ELSE IF At(t, ip.pos) # "."
        THEN [ok |-> TRUE, val |-> ip.val * UnitsPerOne, pos |-> ip.pos]
        ELSE LET fp == parse_digits(t, ip.pos + 1, 0, 0)
             IN  [ok |-> fp.cnt > 0 /\ (fp.val * UnitsPerOne) % Pow10(fp.cnt) = 0,
                  val |-> ip.val * UnitsPerOne + (fp.val * UnitsPerOne) \div Pow10(fp.cnt),
                  pos |-> fp.pos]

\* [x,y]
parse_pair(t, pos) ==
    LET x == parse_f64(t, pos + 1)
        y == parse_f64(t, x.pos + 1)
    IN  [ok |-> /\ At(t, pos) = "[" /\ x.ok /\ At(t, x.pos) = ","
                /\ y.ok /\ At(t, y.pos) = "]",
         val |-> <<x.val, y.val>>,
         pos |-> y.pos + 1]

\* the pairs from pos on, up to the closing bracket
RECURSIVE parse_pairs(_, _, _)
parse_pairs(t, pos, acc) ==
    LET d == parse_pair(t, pos)
    IN  IF ~d.ok THEN [ok |-> FALSE, val |-> acc, pos |-> pos]
        ELSE IF At(t, d.pos) = ","
        THEN parse_pairs(t, d.pos + 1, Append(acc, d.val))
        ELSE [ok |-> At(t, d.pos) = "]", val |-> Append(acc, d.val), pos |-> d.pos + 1]

\* serde_json::from_str::<Vec<[f64;2]>>(text)
from_str(t) ==
    IF At(t, 1) # "[" THEN [ok |-> FALSE, val |-> <<>>]
    ELSE IF At(t, 2) = "]" THEN [ok |-> Len(t) = 2, val |-> <<>>]
    ELSE LET r == parse_pairs(t, 2, <<>>)
         IN  [ok |-> r.ok /\ r.pos = Len(t) + 1, val |-> r.val]

\* The texts a json file can hold: what was saved, of up to MaxLoad points.
JsonFiles == {to_string(ds) : ds \in SeqsUpTo(Points, MaxLoad)}

\* The point sequences load_dots can return: the text parsed, when it parses
\* (expect panics otherwise, before the loop starts).
load_dots == {from_str(t).val : t \in {f \in JsonFiles : from_str(f).ok}}

\* ------------------------------------------------------------ rendering
\* The library's answer: points is the vertex pool, regions the cells, each
\* a list of indices into the pool (1-based here, 0-based in the source).
VertexAt(j) == <<MaxCoord + j, j>>

VoronoiPoints == [j \in 1..MaxVerts |-> VertexAt(j)]

CellSet == {[j \in 1..k |-> j] : k \in 0..MaxVerts}

export_voronoi_regions == SeqsUpTo(CellSet, MaxCells)

Cmd(op, cell, color, pts) == [op |-> op, cell |-> cell, color |-> color, pts |-> pts]

\* for i in 0..poly.len()-1 { line(blue, 2.0, poly[i], poly[i+1]) }
\* poly.len() is a usize: on an empty poly, poly.len()-1 panics in a build
\* with overflow checks, and wraps to usize::MAX in one without, where the
\* first iteration reads poly[0] and panics on the index.  Either way the
\* call panics before it draws anything.
draw_lines_in_polygon(poly, cell) ==
    IF Len(poly) = 0
    THEN [panic |-> TRUE, out |-> <<>>]
    ELSE [panic |-> FALSE,
          out |-> [j \in 1..(Len(poly) - 1) |->
                      Cmd("line", cell, "blue", <<poly[j], poly[j + 1]>>)]]

draw_polygon(poly, cell, color) == <<Cmd("polygon", cell, color, poly)>>

draw_ellipse(d) == Cmd("ellipse", 0, "black", <<d>>)

\* for (i, region) in regions.iter().enumerate() { ... }, from cell i on;
\* acc is what was drawn before.  colors[i] panics when i is out of range.
RECURSIVE draw_regions(_, _, _, _, _, _)
draw_regions(i, acc, pts, regs, cs, lo) ==
    IF i > Len(regs)
    THEN [panic |-> FALSE, out |-> acc]
    ELSE LET poly == [j \in 1..Len(regs[i]) |-> pts[regs[i][j]]]
         IN  IF lo
             THEN LET r == draw_lines_in_polygon(poly, i)
                  IN  IF r.panic
                      THEN [panic |-> TRUE, out |-> acc]
                      ELSE draw_regions(i + 1, acc \o r.out, pts, regs, cs, lo)
             ELSE IF i > Len(cs)
                  THEN [panic |-> TRUE, out |-> acc]
                  ELSE draw_regions(i + 1, acc \o draw_polygon(poly, i, cs[i]),
                                    pts, regs, cs, lo)

draw_dots_OffByOne(ds) == [k \in 1..(Len(ds) - 1) |-> draw_ellipse(ds[k])]

draw_dots(ds) == [k \in 1..Len(ds) |-> draw_ellipse(ds[k])]

\* The closure given to gl.draw: clear, the regions, then the dots.
draw(ds, cs, lo, pts, regs) ==
    LET r == draw_regions(1, <<Cmd("clear", 0, "white", <<>>)>>, pts, regs, cs, lo)
    IN  IF r.panic
        THEN r
        ELSE [panic |-> FALSE, out |-> r.out \o draw_dots(ds)]

\* The points the render adds to the triangulation: for [x,y] in &dots.
add_points(ds) == ds

\* ----------------------------------------------------------------- state
Init ==
    /\ lines_only \in BOOLEAN
    /\ random_count \in 0..MaxRandom
    /\ \E json \in {FALSE, TRUE} :
          IF json
          THEN /\ dots \in load_dots
               /\ colors \in recolor(dots, <<>>)
          ELSE /\ dots = <<>>
               /\ colors = <<>>
    /\ mp = <<0, 0>>
    /\ status = "running"
    /\ ev = "start"
    /\ afterClear = FALSE
    /\ dtInvoked = FALSE
    /\ dtPoints = <<>>
    /\ regions = <<>>
    /\ cmds = <<>>
    /\ prevMode = lines_only
    /\ lRun = 0
    /\ printed = <<>>
    /\ pushed = FALSE
    /\ cursor = <<0, 0>>

\* An iteration that does not render draws nothing.
NoFrame ==
    /\ dtInvoked' = FALSE
    /\ dtPoints' = <<>>
    /\ regions' = <<>>
    /\ cmds' = <<>>

\* e.mouse_cursor(|p| { mp = p })
mouse_cursor_OnlyX(old, p) == <<p[1], old[2]>>

mouse_cursor(old, p) == p

MouseCursor ==
    /\ status = "running"
    /\ \E p \in Points :
          /\ mp' = mouse_cursor(mp, p)
          /\ cursor' = p
    /\ ev' = "mouse_cursor"
    /\ NoFrame
    /\ prevMode' = lines_only
    /\ lRun' = 0
    /\ printed' = <<>>
    /\ pushed' = FALSE
    /\ UNCHANGED <<dots, colors, lines_only, random_count, status, afterClear>>

\* Key::N => { dots.clear(); colors.clear(); }
clear_dots(ds) == <<>>

clear_colors_Forgotten(cs) == cs

clear_colors(cs) == <<>>

KeyN ==
    /\ status = "running"
    /\ dots' = clear_dots(dots)
    /\ colors' = clear_colors(colors)
    /\ afterClear' = (afterClear \/ Len(dots) > 0)
    /\ ev' = "key_N"
    /\ NoFrame
    /\ prevMode' = lines_only
    /\ lRun' = 0
    /\ printed' = <<>>
    /\ pushed' = FALSE
    /\ cursor' = cursor
    /\ UNCHANGED <<mp, lines_only, random_count, status>>

\* Key::R => random_voronoi(&mut dots, &mut colors, settings.random_count)
KeyR ==
    /\ status = "running"
    /\ \E r \in random_voronoi(dots, colors, random_count) :
          /\ dots' = r[1]
          /\ colors' = r[2]
    /\ afterClear' = FALSE
    /\ ev' = "key_R"
    /\ NoFrame
    /\ prevMode' = lines_only
    /\ lRun' = 0
    /\ printed' = <<>>
    /\ pushed' = FALSE
    /\ cursor' = cursor
    /\ UNCHANGED <<mp, lines_only, random_count, status>>

\* Key::L => lines_only = !lines_only
toggle_SetOutline(lo) == TRUE

toggle(lo) == ~lo

KeyL ==
    /\ status = "running"
    /\ lines_only' = toggle(lines_only)
    /\ ev' = "key_L"
    /\ NoFrame
    /\ prevMode' = lines_only
    /\ lRun' = IF lRun < 2 THEN lRun + 1 ELSE 2
    /\ printed' = <<>>
    /\ pushed' = FALSE
    /\ cursor' = cursor
    /\ UNCHANGED <<dots, colors, mp, random_count, status, afterClear>>

\* Key::C => recolor(&dots, &mut colors)
KeyC ==
    /\ status = "running"
    /\ colors' \in recolor(dots, colors)
    /\ ev' = "key_C"
    /\ NoFrame
    /\ prevMode' = lines_only
    /\ lRun' = 0
    /\ printed' = <<>>
    /\ pushed' = FALSE
    /\ cursor' = cursor
    /\ UNCHANGED <<dots, mp, lines_only, random_count, status, afterClear>>

\* Key::S => save_current_dots(&dots): prints, changes nothing
KeyS ==
    /\ status = "running"
    /\ printed' = save_current_dots(dots)
    /\ ev' = "key_S"
    /\ NoFrame
    /\ prevMode' = lines_only
    /\ lRun' = 0
    /\ pushed' = FALSE
    /\ cursor' = cursor
    /\ UNCHANGED <<dots, colors, mp, lines_only, random_count, status, afterClear>>

\* any other key, any other button, any other event: _ => ()
Ignored_Clears ==
    /\ status = "running"
    /\ dots' = <<>>
    /\ colors' = <<>>
    /\ ev' = "ignored"
    /\ NoFrame
    /\ prevMode' = lines_only
    /\ lRun' = 0
    /\ printed' = <<>>
    /\ pushed' = FALSE
    /\ cursor' = cursor
    /\ UNCHANGED <<mp, lines_only, random_count, status, afterClear>>

Ignored ==
    /\ status = "running"
    /\ ev' = "ignored"
    /\ NoFrame
    /\ prevMode' = lines_only
    /\ lRun' = 0
    /\ printed' = <<>>
    /\ pushed' = FALSE
    /\ cursor' = cursor
    /\ UNCHANGED <<dots, colors, mp, lines_only, random_count, status, afterClear>>

\* Button::Mouse(_) => if no_dot_there_yet(&mp, &dots) { push, push }
\* Vec::push
push_Front(v, x) == <<x>> \o v

push(v, x) == Append(v, x)

MouseRelease ==
    /\ status = "running"
    /\ IF no_dot_there_yet(mp, dots)
       THEN /\ Len(dots) < MaxDots
            /\ dots' = push(dots, mp)
            /\ \E c \in random_color : colors' = push(colors, c)
            /\ afterClear' = FALSE
            /\ pushed' = TRUE
       ELSE /\ UNCHANGED <<dots, colors, afterClear>>
            /\ pushed' = FALSE
    /\ ev' = "mouse_release"
    /\ NoFrame
    /\ prevMode' = lines_only
    /\ lRun' = 0
    /\ printed' = <<>>
    /\ cursor' = cursor
    /\ UNCHANGED <<mp, lines_only, random_count, status>>

\* if let Some(args) = e.render_args() { gl.draw(...) }
Render ==
    /\ status = "running"
    /\ dtInvoked' = TRUE
    /\ dtPoints' = add_points(dots)
    /\ \E regs \in export_voronoi_regions :
          LET r == draw(dots, colors, lines_only, VoronoiPoints, regs)
          IN  /\ regions' = regs
              /\ cmds' = r.out
              /\ status' = IF r.panic THEN "panicked" ELSE "running"
    /\ ev' = "render"
    /\ prevMode' = lines_only
    /\ lRun' = 0
    /\ printed' = <<>>
    /\ pushed' = FALSE
    /\ cursor' = cursor
    /\ UNCHANGED <<dots, colors, mp, lines_only, random_count, afterClear>>

Next ==
    \/ MouseCursor
    \/ KeyN
    \/ KeyR
    \/ KeyL
    \/ KeyC
    \/ KeyS
    \/ Ignored
    \/ MouseRelease
    \/ Render

Spec == Init /\ [][Next]_vars

\* Inserts only, from an empty store: pointer motions and button releases.
InitEmpty == Init /\ dots = <<>>

NextInsert ==
    \/ MouseCursor
    \/ MouseRelease

SpecInsert == InitEmpty /\ [][NextInsert]_vars

\* ---------------------------------------------------------------- claims
Near(p, q) == Abs(p[1] - q[1]) < Eps /\ Abs(p[2] - q[2]) < Eps

NoNearDuplicates(ds) ==
    \A i \in 1..Len(ds) : \A j \in 1..Len(ds) : i # j => ~Near(ds[i], ds[j])

IsCellCmd(c) == c.op \in {"polygon", "line"}

\* C1: in every reachable state of the event loop the number of sites equals
\* the number of colors.
CountInvariant == Len(dots) = Len(colors)

\* a recolor (key C) of a store of two sites
CountWitness == ev = "key_C" /\ Len(dots) = 2 /\ Len(colors) = 2

\* C2: from an empty store and under inserts only, no two retained sites are
\* nearer than epsilon on both axes, and a button release at a position equal
\* to an existing site leaves the number of sites as it was.
DedupUnderInserts ==
    /\ []NoNearDuplicates(dots)
    /\ [][(ev' = "mouse_release" /\ \E i \in 1..Len(dots) : dots[i] = mp)
            => Len(dots') = Len(dots)]_vars

\* two sites retained, and the last release, near the first but not on it,
\* was rejected
DedupWitness ==
    /\ ev = "mouse_release"
    /\ Len(dots) = 2
    /\ mp # dots[1] /\ mp # dots[2]
    /\ Near(mp, dots[1])

\* C3: a render tick in filled-polygon mode completes and draws every cell the
\* library returned, those with an index beyond the colors included.
FallbackColor ==
    (ev = "render" /\ ~lines_only) =>
        /\ status = "running"
        /\ \A i \in 1..Len(regions) :
              \E k \in 1..Len(cmds) : cmds[k].op = "polygon" /\ cmds[k].cell = i

\* C4: a render tick over zero sites does not invoke the library and has no
\* cells.
EmptyInputNotInvoked ==
    (ev = "render" /\ Len(dots) = 0) => (~dtInvoked /\ regions = <<>>)

\* C5: the sites a render tick feeds to the library hold no two sites nearer
\* than epsilon on both axes.
NoNearDuplicatesFed == dtInvoked => NoNearDuplicates(dtPoints)

\* C6: right after key R the store holds exactly random_count sites and
\* random_count colors.
ReplaceSemantics ==
    ev = "key_R" => (Len(dots) = random_count /\ Len(colors) = random_count)

\* key R with a count of one has acted
ReplaceWitness == ev = "key_R" /\ random_count = 1 /\ Len(dots) = 1

\* C7: key C leaves the sites as they were and the number of colors equal to
\* the number of sites.
RecolorPreservesSites ==
    [][ev' = "key_C" => (dots' = dots /\ Len(colors') = Len(dots'))]_vars

\* key C has acted on two sites and gave them different colors
RecolorWitness == ev = "key_C" /\ Len(dots) = 2 /\ colors[1] # colors[2]

\* C8: a render tick builds its diagram from the sites as the events before it
\* left them, and never sees exactly one of sites and colors empty.
EventsBeforeRender ==
    ev = "render" =>
        /\ dtPoints = dots
        /\ (Len(dots) = 0) <=> (Len(colors) = 0)

\* a render tick of the store key N emptied
EventsBeforeRenderWitness ==
    ev = "render" /\ afterClear /\ dtInvoked /\ dots = <<>> /\ colors = <<>>

DrawOrderOf(cs, ds, regs, lo) ==
    LET n == Len(cs)
        nd == Len(ds)
    IN  /\ n >= 1 + nd
        /\ cs[1].op = "clear"
        /\ \A k \in 2..(n - nd) : IsCellCmd(cs[k])
        /\ \A k \in 2..(n - nd - 1) : cs[k].cell <= cs[k + 1].cell
        /\ ~lo => /\ n - nd - 1 = Len(regs)
                  /\ \A i \in 1..Len(regs) : cs[1 + i].cell = i
        /\ \A j \in 1..nd :
              /\ cs[n - nd + j].op = "ellipse"
              /\ cs[n - nd + j].pts = <<ds[j]>>

\* C9: the draw commands of a render tick are the clear, then the cell
\* commands in cell order, then one marker per site in store order.
DrawOrder == ev = "render" => DrawOrderOf(cmds, dots, regions, lines_only)

\* The same, of the ticks that do not panic.
DrawOrderOfCompletedTicks ==
    (ev = "render" /\ status = "running") =>
        DrawOrderOf(cmds, dots, regions, lines_only)

\* C10: a render tick where the library returns no cell for a non-empty store
\* completes, emits no cell command and emits one marker per site.
DegenerateGeometry ==
    (ev = "render" /\ Len(dots) > 0 /\ regions = <<>>) =>
        /\ status = "running"
        /\ Len(cmds) = 1 + Len(dots)
        /\ cmds[1].op = "clear"
        /\ \A j \in 1..Len(dots) :
              /\ cmds[1 + j].op = "ellipse"
              /\ cmds[1 + j].pts = <<dots[j]>>

\* no cell for two sites, in outline mode
DegenerateWitness ==
    ev = "render" /\ Len(dots) = 2 /\ regions = <<>> /\ lines_only

\* C11: key L changes the display mode and nothing else of sites, colors and
\* cursor position, and the second of two key L events in a row puts the mode
\* back to what it was before the first.
ToggleInvolution ==
    [][/\ ev' = "key_L" =>
            (lines_only' # lines_only /\ dots' = dots /\ colors' = colors /\ mp' = mp)
       /\ (ev' = "key_L" /\ lRun' = 2) => lines_only' = prevMode]_vars

\* two key L events in a row, over a store with sites and a moved cursor
ToggleWitness ==
    ev = "key_L" /\ lRun = 2 /\ Len(dots) = 2 /\ mp # <<0, 0>> /\ lines_only

RejectedInsertIsNoOp ==
    [][ev' = "mouse_release" =>
          IF \E i \in 1..Len(dots) : Near(mp, dots[i])
          THEN dots' = dots /\ colors' = colors
          ELSE Len(dots') = Len(dots) + 1 /\ Len(colors') = Len(colors) + 1]_vars

\* a release near the only site, but not on it, pushed nothing
RejectedInsertWitness ==
    /\ ev = "mouse_release"
    /\ ~pushed
    /\ Len(dots) = 1 /\ Len(colors) = 1
    /\ Near(mp, dots[1]) /\ mp # dots[1]

\* C15: a button release that changes the sites puts the cursor position at
\* the end of the sites and one color at the end of the colors, at the same
\* index, and keeps every earlier site and color where it was.
InsertAppends ==
    [][(ev' = "mouse_release" /\ dots' # dots) =>
          /\ dots' = Append(dots, mp)
          /\ Len(colors') = Len(colors) + 1
          /\ SubSeq(colors', 1, Len(colors)) = colors
          /\ Len(colors') = Len(dots')]_vars

\* a second site was pushed, with a color other than the first site's
InsertAppendsWitness ==
    /\ ev = "mouse_release"
    /\ pushed
    /\ Len(dots) = 2 /\ dots[2] = mp /\ dots[1] # mp
    /\ colors[1] # colors[2]

SegmentsOf(cs, i) ==
    LET IsSeg(c) == c.op = "line" /\ c.cell = i
    IN  SelectSeq(cs, IsSeg)

OpenPolylineOf(cs, regs, i) ==
    LET k == Len(regs[i])
        segs == SegmentsOf(cs, i)
    IN  /\ Len(segs) = IF k > 0 THEN k - 1 ELSE 0
        /\ \A j \in 1..Len(segs) :
              segs[j].pts = <<VoronoiPoints[regs[i][j]], VoronoiPoints[regs[i][j + 1]]>>

\* C16: a render tick in outline mode completes, and for every cell of k >= 0
\* vertices it emits max(k-1, 0) segments, segment j from vertex j to vertex
\* j+1.
OpenPolyline ==
    (ev = "render" /\ lines_only) =>
        /\ status = "running"
        /\ \A i \in 1..Len(regions) : OpenPolylineOf(cmds, regions, i)

\* The same, of the ticks where no cell is empty.
OpenPolylineOfNonEmptyCells ==
    (ev = "render" /\ lines_only /\ \A i \in 1..Len(regions) : Len(regions[i]) > 0) =>
        /\ status = "running"
        /\ \A i \in 1..Len(regions) : OpenPolylineOf(cmds, regions, i)

\* C17: the position a button release offers to the store is the one the last
\* pointer motion carried, or the origin when there was none.
InsertsLastCursorPosition ==
    [][ev' = "mouse_release" =>
          /\ mp = cursor
          /\ dots' # dots => dots'[Len(dots')] = cursor]_vars

\* a site pushed at the position of the last pointer motion, off the origin
InsertsLastCursorWitness ==
    /\ ev = "mouse_release"
    /\ pushed
    /\ cursor = <<1, 2>>
    /\ dots[Len(dots)] = <<1, 2>>

\* C18: pointer motion, key S, ignored events and render ticks leave sites,
\* colors and display mode as they were, and only pointer motion among them
\* changes the cursor position.
NonMutatingEvents ==
    [][ev' \in {"mouse_cursor", "key_S", "ignored", "render"} =>
          /\ dots' = dots
          /\ colors' = colors
          /\ lines_only' = lines_only
          /\ ev' # "mouse_cursor" => mp' = mp]_vars

\* a pointer motion over a store of two sites
NonMutatingWitness ==
    ev = "mouse_cursor" /\ mp # <<0, 0>> /\ Len(dots) = 2 /\ Len(colors) = 2

====
